---- MODULE Spec2Model ----
(***************************************************************************)
(* State-machine model of the CPE innovation framework:                    *)
(*   src/src/main.py         CPEInnovationFramework                        *)
(*   src/config/settings.py  Settings                                      *)
(*                                                                         *)
(* Python values are records tagged by `kind`.  A dict is a sequence of    *)
(* [key, val] items in insertion order (the order list(d.values()) uses).  *)
(* Every object built by a constructor call gets a fresh identity `id`;     *)
(* identities are only ever compared, so after each call the objects still *)
(* reachable from self.agents, self.tasks and self.crew are renumbered in   *)
(* the order they are reached and the others are garbage.                  *)
(* Calls into crewai / langchain (ChatOpenAI, Agent, Task, Crew, kickoff)  *)
(* are external: whether they raise is an input of the action.             *)
(***************************************************************************)
EXTENDS Integers, Sequences, FiniteSets, TLC

\* Bound on the clock readings datetime.now() can return.
MaxTime == 1

VARIABLES
    env,        \* process environment: value of OPENAI_API_KEY (os.getenv)
    settings,   \* class attributes of Settings
    llm,        \* self.llm, PyNone while no framework object exists
    agents,     \* self.agents
    tasks,      \* self.tasks
    crew,       \* self.crew
    ret,        \* the most recent call: operation, argument, outcome
    kick        \* the crew.kickoff invocation made by the most recent call

vars == <<env, settings, llm, agents, tasks, crew, ret, kick>>

-----------------------------------------------------------------------------
(* Python values *)

PyNone == [kind |-> "None"]
PyStr(s) == [kind |-> "str", s |-> s]
PyBool(b) == [kind |-> "bool", b |-> b]
PyDict(items) == [kind |-> "dict", items |-> items]

IsNone(v) == v.kind = "None"

\* bool(v): None, "" and {} are falsy; objects without __bool__/__len__ are truthy
Truthy(v) ==
    CASE v.kind = "None" -> FALSE
      [] v.kind = "str"  -> Len(v.s) > 0
      [] v.kind = "bool" -> v.b
      [] v.kind = "dict" -> Len(v.items) > 0
      [] OTHER           -> TRUE

\* dict operations on a sequence of [key, val] items
Keys(d) == [i \in 1..Len(d) |-> d[i].key]
KeySet(d) == {d[i].key : i \in 1..Len(d)}
Values(d) == [i \in 1..Len(d) |-> d[i].val]
HasKey(d, k) == k \in KeySet(d)
Get(d, k) == d[CHOOSE i \in 1..Len(d) : d[i].key = k].val

\* d[k] = v appended after every existing item, even when k is already a key
SetItemAppend(d, k, v) == Append(d, [key |-> k, val |-> v])

\* d[k] = v: replaces the value in place when k is a key, else appends
SetItem(d, k, v) ==
    IF HasKey(d, k)
    THEN [i \in 1..Len(d) |-> IF d[i].key = k THEN [key |-> k, val |-> v] ELSE d[i]]
    ELSE Append(d, [key |-> k, val |-> v])

\* datetime.isoformat()
isoformat(t) == PyStr("2026-01-01T00:00:0" \o ToString(t))

Times == 1..MaxTime

-----------------------------------------------------------------------------
(* Outcome of a call *)

NoExc == "none"
Returned(opname, arg, v) ==
    [op |-> opname, arg |-> arg, raised |-> FALSE, exc |-> NoExc, val |-> v]
Raised(opname, arg, e) ==
    [op |-> opname, arg |-> arg, raised |-> TRUE, exc |-> e, val |-> PyNone]

NotCalled == [called |-> FALSE]

-----------------------------------------------------------------------------
(* Settings (src/config/settings.py) *)

\* os.getenv(name, default): the default when the variable is unset
getenv(value, default) == IF IsNone(value) THEN default ELSE value

\* The class body, evaluated once at import.  Only OPENAI_API_KEY varies in
\* the modelled environments; the other variables are unset.
Settings(key) ==
    [ OPENAI_API_KEY     |-> getenv(key, PyNone),
      OPENAI_MODEL       |-> getenv(PyNone, PyStr("gpt-4")),
      DEBUG              |-> getenv(PyNone, PyStr("true")) = PyStr("true"),
      LOG_LEVEL          |-> getenv(PyNone, PyStr("INFO")),
      NETWORK_TIMEOUT    |-> 30,
      MAX_DEVICES        |-> 10,
      DEPLOYMENT_TIMEOUT |-> 300 ]

\* if not cls.OPENAI_API_KEY: raise ValueError(...) -- tested with `is None`
validate_is_none(s) ==
    IF IsNone(s.OPENAI_API_KEY)
    THEN Raised("validate", PyNone, "ValueError")
    ELSE Returned("validate", PyNone, PyBool(TRUE))

\* Settings.validate()
do_validate(s) ==
    IF ~Truthy(s.OPENAI_API_KEY)
    THEN Raised("validate", PyNone, "ValueError")
    ELSE Returned("validate", PyNone, PyBool(TRUE))

-----------------------------------------------------------------------------
(* The five agents and the five tasks, in the order the source creates them *)

AgentSpecsNoDelegation ==
    << [key |-> "network_optimizer",       role |-> "Network Optimization Specialist", allow_delegation |-> FALSE],
       [key |-> "maintenance_engineer",    role |-> "Predictive Maintenance Engineer", allow_delegation |-> FALSE],
       [key |-> "deployment_orchestrator", role |-> "Service Deployment Orchestrator", allow_delegation |-> FALSE],
       [key |-> "knowledge_curator",       role |-> "Knowledge Curation Manager",      allow_delegation |-> FALSE],
       [key |-> "ecosystem_coordinator",   role |-> "Ecosystem Coordination Director", allow_delegation |-> FALSE] >>

AgentSpecs ==
    << [key |-> "network_optimizer",       role |-> "Network Optimization Specialist", allow_delegation |-> FALSE],
       [key |-> "maintenance_engineer",    role |-> "Predictive Maintenance Engineer", allow_delegation |-> FALSE],
       [key |-> "deployment_orchestrator", role |-> "Service Deployment Orchestrator", allow_delegation |-> FALSE],
       [key |-> "knowledge_curator",       role |-> "Knowledge Curation Manager",      allow_delegation |-> FALSE],
       [key |-> "ecosystem_coordinator",   role |-> "Ecosystem Coordination Director", allow_delegation |-> TRUE] >>

\* setup_tasks with the second and third statements exchanged
TaskSpecsSwapped ==
    << [key |-> "network_analysis",       agent |-> "network_optimizer",
        description |-> "Analyze current network configurations"],
       [key |-> "service_deployment",     agent |-> "deployment_orchestrator",
        description |-> "Execute automated service deployments"],
       [key |-> "maintenance_prediction", agent |-> "maintenance_engineer",
        description |-> "Process sensor data and time-series information"],
       [key |-> "knowledge_curation",     agent |-> "knowledge_curator",
        description |-> "Review community-submitted solutions"],
       [key |-> "ecosystem_coordination", agent |-> "ecosystem_coordinator",
        description |-> "Orchestrate agent interactions"] >>

\* description: the opening words of the task's description text
TaskSpecs ==
    << [key |-> "network_analysis",       agent |-> "network_optimizer",
        description |-> "Analyze current network configurations"],
       [key |-> "maintenance_prediction", agent |-> "maintenance_engineer",
        description |-> "Process sensor data and time-series information"],
       [key |-> "service_deployment",     agent |-> "deployment_orchestrator",
        description |-> "Execute automated service deployments"],
       [key |-> "knowledge_curation",     agent |-> "knowledge_curator",
        description |-> "Review community-submitted solutions"],
       [key |-> "ecosystem_coordination", agent |-> "ecosystem_coordinator",
        description |-> "Orchestrate agent interactions"] >>

\* Agent(role=..., allow_delegation=..., verbose=True, llm=self.llm)
Agent(id, spec, llmv) ==
    [kind |-> "Agent", id |-> id, role |-> spec.role, verbose |-> TRUE,
     allow_delegation |-> spec.allow_delegation, llm |-> llmv]

\* Task(description=..., expected_output=..., agent=...)
Task(id, spec, agent) ==
    [kind |-> "Task", id |-> id, description |-> spec.description, agent |-> agent]

\* Crew(agents=..., tasks=..., process=Process.sequential, verbose=2)
Crew(id, ags, tks) ==
    [kind |-> "Crew", id |-> id, agents |-> ags, tasks |-> tks,
     process |-> "sequential", verbose |-> 2]

-----------------------------------------------------------------------------
(* setup_agents: statement i is self.agents[key_i] = Agent(...).  `fault` is   *)
(* the statement whose Agent(...) call raises (0: none does).                  *)

RECURSIVE setup_agents_from(_, _, _, _, _)
setup_agents_from(i, ag, id, llmv, fault) ==
    IF i > Len(AgentSpecs) THEN [agents |-> ag, nextId |-> id, exc |-> NoExc]
    ELSE IF i = fault THEN [agents |-> ag, nextId |-> id, exc |-> "AgentError"]
    ELSE setup_agents_from(i + 1,
             SetItem(ag, AgentSpecs[i].key, Agent(id, AgentSpecs[i], llmv)),
             id + 1, llmv, fault)

do_setup_agents(ag, id, llmv, fault) == setup_agents_from(1, ag, id, llmv, fault)

(* setup_tasks: statement i is self.tasks[key_i] = Task(..., agent=            *)
(* self.agents[agent_i]).  The subscript is evaluated first and raises         *)
(* KeyError when the agent is missing; then Task(...) may raise (`fault`).     *)

\* self.agents.get(k): None instead of KeyError
LookupAgentGet(ag, k) ==
    IF HasKey(ag, k) THEN [exc |-> NoExc, val |-> Get(ag, k)]
    ELSE [exc |-> NoExc, val |-> PyNone]

\* self.agents[k]
LookupAgent(ag, k) ==
    IF HasKey(ag, k) THEN [exc |-> NoExc, val |-> Get(ag, k)]
    ELSE [exc |-> "KeyError", val |-> PyNone]

RECURSIVE setup_tasks_from(_, _, _, _, _)
setup_tasks_from(i, ag, tk, id, fault) ==
    IF i > Len(TaskSpecs) THEN [tasks |-> tk, nextId |-> id, exc |-> NoExc]
    ELSE LET a == LookupAgent(ag, TaskSpecs[i].agent) IN
         IF a.exc # NoExc THEN [tasks |-> tk, nextId |-> id, exc |-> a.exc]
         ELSE IF i = fault THEN [tasks |-> tk, nextId |-> id, exc |-> "TaskError"]
         ELSE setup_tasks_from(i + 1, ag,
                  SetItem(tk, TaskSpecs[i].key, Task(id, TaskSpecs[i], a.val)),
                  id + 1, fault)

do_setup_tasks(ag, tk, id, fault) == setup_tasks_from(1, ag, tk, id, fault)

(* setup_crew: setup_agents(); setup_tasks(); self.crew = Crew(...).           *)
(* `fault` numbers the constructor call that raises: 1..5 an Agent(...),       *)
(* 6..10 a Task(...), 11 the Crew(...); 0: none.                               *)

CrewFault == Len(AgentSpecs) + Len(TaskSpecs) + 1
AgentFault(fault) == IF fault <= Len(AgentSpecs) THEN fault ELSE 0
TaskFault(fault) ==
    IF fault > Len(AgentSpecs) /\ fault < CrewFault THEN fault - Len(AgentSpecs) ELSE 0

\* the last step: self.crew = Crew(agents=list(...), tasks=list(...), ...)
make_crew(ag, tk, cr, id, fault) ==
    IF fault = CrewFault
    THEN [agents |-> ag, tasks |-> tk, crew |-> cr, nextId |-> id, exc |-> "CrewError"]
    ELSE [agents |-> ag, tasks |-> tk, crew |-> Crew(id, Values(ag), Values(tk)),
          nextId |-> id + 1, exc |-> NoExc]

\* the second step: self.setup_tasks()
crew_tasks(ag, tk, cr, id, fault) ==
    LET t == do_setup_tasks(ag, tk, id, TaskFault(fault)) IN
    IF t.exc # NoExc
    THEN [agents |-> ag, tasks |-> t.tasks, crew |-> cr, nextId |-> t.nextId, exc |-> t.exc]
    ELSE make_crew(ag, t.tasks, cr, t.nextId, fault)

\* setup_crew without its setup_tasks() call
do_setup_crew_no_tasks(ag, tk, cr, id, llmv, fault) ==
    LET a == do_setup_agents(ag, id, llmv, AgentFault(fault)) IN
    IF a.exc # NoExc
    THEN [agents |-> a.agents, tasks |-> tk, crew |-> cr, nextId |-> a.nextId, exc |-> a.exc]
    ELSE make_crew(a.agents, tk, cr, a.nextId, fault)

do_setup_crew(ag, tk, cr, id, llmv, fault) ==
    LET a == do_setup_agents(ag, id, llmv, AgentFault(fault)) IN
    IF a.exc # NoExc
    THEN [agents |-> a.agents, tasks |-> tk, crew |-> cr, nextId |-> a.nextId, exc |-> a.exc]
    ELSE crew_tasks(a.agents, tk, cr, a.nextId, fault)

(* get_system_status *)

\* crew_initialized computed as `self.crew is None`
do_get_system_status_inverted(ag, tk, cr, t) ==
    PyDict(<< [key |-> "framework_status", val |-> "Active"],
              [key |-> "agents_count",     val |-> Len(ag)],
              [key |-> "tasks_count",      val |-> Len(tk)],
              [key |-> "last_analysis",    val |-> isoformat(t)],
              [key |-> "crew_initialized", val |-> IsNone(cr)] >>)

\* tasks_count computed as len(self.agents)
do_get_system_status_agents_twice(ag, tk, cr, t) ==
    PyDict(<< [key |-> "framework_status", val |-> "Active"],
              [key |-> "agents_count",     val |-> Len(ag)],
              [key |-> "tasks_count",      val |-> Len(ag)],
              [key |-> "last_analysis",    val |-> isoformat(t)],
              [key |-> "crew_initialized", val |-> ~IsNone(cr)] >>)

do_get_system_status(ag, tk, cr, t) ==
    PyDict(<< [key |-> "framework_status", val |-> "Active"],
              [key |-> "agents_count",     val |-> Len(ag)],
              [key |-> "tasks_count",      val |-> Len(tk)],
              [key |-> "last_analysis",    val |-> isoformat(t)],
              [key |-> "crew_initialized", val |-> ~IsNone(cr)] >>)

-----------------------------------------------------------------------------
(* run_analysis *)

\* What crew.kickoff can do: return a value, or raise at one of its steps.
RunResult(raw) == [kind |-> "CrewOutput", raw |-> raw]
Results == {RunResult("V"), RunResult("W")}
Steps == 1..Len(TaskSpecs)
KickOutcomes ==
    {[failedStep |-> 0, value |-> v] : v \in Results}
        \cup {[failedStep |-> k, value |-> PyNone] : k \in Steps}

\* crew.kickoff(inputs=payload): the steps before failedStep produced output
kickoff(cr, payload, outcome) ==
    [called |-> TRUE, inputs |-> payload,
     failedStep |-> outcome.failedStep,
     outputs |-> [i \in 1..(IF outcome.failedStep = 0 THEN Len(cr.tasks)
                            ELSE outcome.failedStep - 1) |-> <<"output", i>>],
     value |-> outcome.value]

DefaultPayload(t) ==
    PyDict(<< [key |-> "network_config",          val |-> PyStr("Current network configuration data")],
              [key |-> "sensor_data",             val |-> PyStr("Equipment sensor readings and historical data")],
              [key |-> "service_specs",           val |-> PyStr("Service deployment specifications")],
              [key |-> "community_contributions", val |-> PyStr("Recent community submissions")],
              [key |-> "timestamp",               val |-> isoformat(t)] >>)

\* `if self.crew:` -- the test inverted
NeedsComposeInverted(cr) == Truthy(cr)

\* if not self.crew: self.setup_crew()
NeedsCompose(cr) == ~Truthy(cr)

\* `if not input_data:` -- an empty payload replaced too
InputPayloadIfFalsy(input_data, t) ==
    IF ~Truthy(input_data) THEN DefaultPayload(t) ELSE input_data

\* if input_data is None: input_data = {...}
InputPayload(input_data, t) ==
    IF IsNone(input_data) THEN DefaultPayload(t) ELSE input_data

\* setup_crew() called inside the try block: its error becomes the sentinel
ComposeFailureSwallowed(input_data, exc) ==
    Returned("run_analysis", input_data, PyNone)

\* self.setup_crew() stands outside the try block: its exception leaves run_analysis
ComposeFailure(input_data, exc) == Raised("run_analysis", input_data, exc)

\* except Exception: print(...); raise
KickoffFailureReraised(input_data, k) ==
    Raised("run_analysis", input_data, "ExecutionFailure")

\* except Exception as e: print(...); return None
KickoffFailure(input_data, k) == Returned("run_analysis", input_data, PyNone)

\* try: result = self.crew.kickoff(inputs=input_data); return result
execute(c, input_data, payload, outcome) ==
    IF IsNone(c.crew)
    \* None.kickoff: AttributeError, raised inside the try block
    THEN [ret |-> KickoffFailure(input_data, NotCalled), kick |-> NotCalled]
    ELSE LET k == kickoff(c.crew, payload, outcome) IN
         [ret |-> IF k.failedStep # 0 THEN KickoffFailure(input_data, k)
                  ELSE Returned("run_analysis", input_data, k.value),
          kick |-> k]

\* if not self.crew: self.setup_crew()
compose_if_needed(ag, tk, cr, id, llmv, fault) ==
    IF NeedsCompose(cr)
    THEN do_setup_crew(ag, tk, cr, id, llmv, fault)
    ELSE [agents |-> ag, tasks |-> tk, crew |-> cr, nextId |-> id, exc |-> NoExc]

-----------------------------------------------------------------------------
(* Object identity *)

IdOf(obj) == IF IsNone(obj) THEN 0 ELSE obj.id

\* <<a1, t1, a2, t2, ...>>: each task's agent, then the task
TasksRefs(tks) ==
    [i \in 1..(2 * Len(tks)) |->
        IF i % 2 = 1 THEN IdOf(tks[(i + 1) \div 2].agent) ELSE tks[i \div 2].id]

\* The identities reachable from self.agents, self.tasks, self.crew, in reach order
Refs(ag, tk, cr) ==
    [i \in 1..Len(ag) |-> IdOf(ag[i].val)]
        \o TasksRefs(Values(tk))
        \o (IF IsNone(cr) THEN <<>>
            ELSE [i \in 1..Len(cr.agents) |-> IdOf(cr.agents[i])]
                     \o TasksRefs(cr.tasks)
                     \o <<cr.id>>)

\* The identity a constructor call gives its object: one no reachable object has
RECURSIVE MaxFrom(_, _, _)
MaxFrom(refs, i, m) ==
    IF i > Len(refs) THEN m
    ELSE IF refs[i] > m THEN MaxFrom(refs, i + 1, refs[i])
    ELSE MaxFrom(refs, i + 1, m)

NextId(ag, tk, cr) == 1 + MaxFrom(Refs(ag, tk, cr), 1, 0)

\* refs without the repeated occurrences (and without 0, the identity of None)
RECURSIVE Distinct(_, _, _)
Distinct(refs, i, seen) ==
    IF i > Len(refs) THEN seen
    ELSE IF refs[i] = 0 \/ \E j \in 1..Len(seen) : seen[j] = refs[i]
    THEN Distinct(refs, i + 1, seen)
    ELSE Distinct(refs, i + 1, Append(seen, refs[i]))

\* The number an identity gets: its position in the reach order
Rank(id, order) ==
    IF id = 0 THEN 0 ELSE CHOOSE i \in 1..Len(order) : order[i] = id

RenAgent(a, refs) == IF IsNone(a) THEN a ELSE [a EXCEPT !.id = Rank(a.id, refs)]
RenTask(t, refs) ==
    [t EXCEPT !.id = Rank(t.id, refs), !.agent = RenAgent(t.agent, refs)]
RenCrew(cr, refs) ==
    IF IsNone(cr) THEN cr
    ELSE [cr EXCEPT !.id = Rank(cr.id, refs),
                    !.agents = [i \in 1..Len(cr.agents) |-> RenAgent(cr.agents[i], refs)],
                    !.tasks = [i \in 1..Len(cr.tasks) |-> RenTask(cr.tasks[i], refs)]]

\* The reachable objects renumbered 1, 2, ... in reach order
Compact(st) ==
    LET refs == Distinct(Refs(st.agents, st.tasks, st.crew), 1, <<>>) IN
    [agents |-> [i \in 1..Len(st.agents) |->
                    [key |-> st.agents[i].key, val |-> RenAgent(st.agents[i].val, refs)]],
     tasks |-> [i \in 1..Len(st.tasks) |->
                    [key |-> st.tasks[i].key, val |-> RenTask(st.tasks[i].val, refs)]],
     crew |-> RenCrew(st.crew, refs)]

-----------------------------------------------------------------------------
(* The state machine *)

EnvKeys == {PyNone, PyStr(""), PyStr("sk-test123")}

Payloads ==
    {PyNone, PyDict(<<>>),
     PyDict(<<[key |-> "network_config", val |-> PyStr("Sample CPE network configuration")]>>)}

\* The constructor faults a run_analysis call can meet: none when it composes nothing
RunFaults(cr) == IF NeedsCompose(cr) THEN 0..CrewFault ELSE {0}

\* The module has been imported: Settings is populated, no framework object yet.
Init ==
    /\ env \in EnvKeys
    /\ settings = Settings(env)
    /\ llm = PyNone
    /\ agents = <<>>
    /\ tasks = <<>>
    /\ crew = PyNone
    /\ ret = Returned("import", PyNone, PyNone)
    /\ kick = NotCalled

Constructed == ~IsNone(llm)

\* ChatOpenAI(model="gpt-4", temperature=0.3, openai_api_key=key): raises when
\* the key is missing or empty, and may raise for any other key
ChatOpenAI(key, accepted) ==
    IF Truthy(key) /\ accepted
    THEN [kind |-> "ChatOpenAI", model |-> "gpt-4", temperature |-> "0.3",
          openai_api_key |-> key]
    ELSE PyNone

\* CPEInnovationFramework(): when ChatOpenAI(...) raises, no object exists
CPEInnovationFramework ==
    /\ ~Constructed
    /\ \E accepted \in BOOLEAN :
        \E client \in {ChatOpenAI(env, accepted)} :
            IF IsNone(client)
            THEN /\ ret' = Raised("__init__", PyNone, "ClientInitError")
                 /\ UNCHANGED <<llm, crew, agents, tasks>>
            ELSE /\ llm' = client
                 /\ crew' = PyNone
                 /\ agents' = <<>>
                 /\ tasks' = <<>>
                 /\ ret' = Returned("__init__", PyNone, PyNone)
    /\ kick' = NotCalled
    /\ UNCHANGED <<env, settings>>

Outcome(opname, arg, exc) ==
    IF exc = NoExc THEN Returned(opname, arg, PyNone) ELSE Raised(opname, arg, exc)

setup_agents ==
    /\ Constructed
    /\ \E id \in {NextId(agents, tasks, crew)}, fault \in 0..Len(AgentSpecs) :
        \E r \in {do_setup_agents(agents, id, llm, fault)} :
        \E h \in {Compact([agents |-> r.agents, tasks |-> tasks, crew |-> crew])} :
            /\ agents' = h.agents
            /\ tasks' = h.tasks
            /\ crew' = h.crew
            /\ ret' = Outcome("setup_agents", PyNone, r.exc)
    /\ kick' = NotCalled
    /\ UNCHANGED <<env, settings, llm>>

setup_tasks ==
    /\ Constructed
    /\ \E id \in {NextId(agents, tasks, crew)}, fault \in 0..Len(TaskSpecs) :
        \E r \in {do_setup_tasks(agents, tasks, id, fault)} :
        \E h \in {Compact([agents |-> agents, tasks |-> r.tasks, crew |-> crew])} :
            /\ agents' = h.agents
            /\ tasks' = h.tasks
            /\ crew' = h.crew
            /\ ret' = Outcome("setup_tasks", PyNone, r.exc)
    /\ kick' = NotCalled
    /\ UNCHANGED <<env, settings, llm>>

setup_crew ==
    /\ Constructed
    /\ \E id \in {NextId(agents, tasks, crew)}, fault \in 0..CrewFault :
        \E r \in {do_setup_crew(agents, tasks, crew, id, llm, fault)} :
        \E h \in {Compact(r)} :
            /\ agents' = h.agents
            /\ tasks' = h.tasks
            /\ crew' = h.crew
            /\ ret' = Outcome("setup_crew", PyNone, r.exc)
    /\ kick' = NotCalled
    /\ UNCHANGED <<env, settings, llm>>

run_analysis ==
    /\ Constructed
    /\ \E id \in {NextId(agents, tasks, crew)}, fault \in RunFaults(crew) :
        \E c \in {compose_if_needed(agents, tasks, crew, id, llm, fault)} :
            /\ \E h \in {Compact(c)} :
                /\ agents' = h.agents
                /\ tasks' = h.tasks
                /\ crew' = h.crew
            /\ \E input_data \in Payloads :
                IF c.exc # NoExc
                THEN /\ ret' = ComposeFailure(input_data, c.exc)
                     /\ kick' = NotCalled
                ELSE \E payload \in {InputPayload(input_data, t) : t \in Times},
                        outcome \in KickOutcomes :
                        \E r \in {execute(c, input_data, payload, outcome)} :
                            /\ ret' = r.ret
                            /\ kick' = r.kick
    /\ UNCHANGED <<env, settings, llm>>

get_system_status ==
    /\ Constructed
    /\ \E t \in Times :
        ret' = Returned("get_system_status", PyNone,
                        do_get_system_status(agents, tasks, crew, t))
    /\ kick' = NotCalled
    /\ UNCHANGED <<env, settings, llm, agents, tasks, crew>>

validate ==
    /\ ret' = do_validate(settings)
    /\ kick' = NotCalled
    /\ UNCHANGED <<env, settings, llm, agents, tasks, crew>>

Next ==
    \/ CPEInnovationFramework
    \/ setup_agents
    \/ setup_tasks
    \/ setup_crew
    \/ run_analysis
    \/ get_system_status
    \/ validate

Spec == Init /\ [][Next]_vars

-----------------------------------------------------------------------------
(* Properties *)

Ok(opname) == ret.op = opname /\ ~ret.raised
Field(d, k) == Get(d.items, k)
Composed == ~IsNone(crew) /\ Len(agents) = 5 /\ Len(tasks) = 5
NoDuplicates(d) == Cardinality(KeySet(d)) = Len(d)

\* What get_system_status would report now, at any clock reading
Reports(agents_count, tasks_count, crew_initialized) ==
    \A t \in Times :
        LET status == do_get_system_status(agents, tasks, crew, t) IN
        /\ Field(status, "agents_count") = agents_count
        /\ Field(status, "tasks_count") = tasks_count
        /\ Field(status, "crew_initialized") = crew_initialized

\* The agent keys the registered tasks are owned by
OwnerKeys(tk) ==
    {TaskSpecs[i].agent : i \in {j \in 1..Len(TaskSpecs) : HasKey(tk, TaskSpecs[j].key)}}

\* C1: after a setup_crew call that returned, get_system_status reports 5 agents,
\* 5 tasks and crew_initialized = true, with no duplicate key in either registry;
\* a setup_crew call that follows another leaves the keys and counts unchanged.
C1_ComposeReportsFive ==
    /\ [](Ok("setup_crew") =>
            /\ Reports(5, 5, TRUE)
            /\ NoDuplicates(agents) /\ NoDuplicates(tasks))
    /\ [][(Ok("setup_crew") /\ ret'.op = "setup_crew" /\ ~ret'.raised) =>
            /\ Keys(agents') = Keys(agents)
            /\ Keys(tasks') = Keys(tasks)]_vars

C1_Witness ==
    /\ Ok("setup_crew")
    /\ Len(agents) = 5 /\ Len(tasks) = 5 /\ ~IsNone(crew)

\* C2: on a freshly constructed framework get_system_status returns without
\* raising and reports crew_initialized = false, agents_count = 0, tasks_count = 0.
C2_FreshStatus ==
    /\ [](Ok("__init__") => Reports(0, 0, FALSE))
    /\ [][(Ok("__init__") /\ ret'.op = "get_system_status") =>
            /\ ~ret'.raised
            /\ Field(ret'.val, "agents_count") = 0
            /\ Field(ret'.val, "tasks_count") = 0
            /\ Field(ret'.val, "crew_initialized") = FALSE]_vars

C2_Witness ==
    /\ Ok("get_system_status")
    /\ agents = <<>> /\ tasks = <<>> /\ IsNone(crew)
    /\ Field(ret.val, "crew_initialized") = FALSE

\* C3: when crew.kickoff raises at any of its steps, run_analysis returns None and
\* raises nothing, whatever the payload and whatever the earlier steps produced.
C3_KickoffFailureGivesSentinel ==
    (ret.op = "run_analysis" /\ kick.called /\ kick.failedStep # 0) =>
        /\ ~ret.raised
        /\ IsNone(ret.val)

C3_Witness ==
    /\ ret.op = "run_analysis"
    /\ kick.called /\ kick.failedStep = 3 /\ Len(kick.outputs) = 2
    /\ ~ret.raised /\ IsNone(ret.val)

\* C4: when crew.kickoff returns V, run_analysis returns exactly V; a payload that
\* is present (empty or not) reaches kickoff unchanged, and an absent payload
\* (None) is replaced by the default payload, which has a timestamp.
C4_ResultAndPayload ==
    (ret.op = "run_analysis" /\ kick.called) =>
        /\ kick.failedStep = 0 => (~ret.raised /\ ret.val = kick.value)
        /\ ~IsNone(ret.arg) => kick.inputs = ret.arg
        /\ IsNone(ret.arg) =>
            /\ kick.inputs.kind = "dict"
            /\ HasKey(kick.inputs.items, "timestamp")

C4_Witness ==
    /\ ret.op = "run_analysis"
    /\ ret.arg = PyDict(<<>>)
    /\ kick.called /\ kick.inputs = PyDict(<<>>)
    /\ ret.val = RunResult("V")

\* C5: setup_tasks on an empty agent registry raises KeyError (the unknown-agent
\* error) and registers none of the five tasks; no task is ever registered
\* whose owning agent is not in the agent registry.
C5_TasksNeedAgents ==
    /\ [][(ret'.op = "setup_tasks" /\ agents = <<>>) =>
            /\ ret'.raised /\ ret'.exc = "KeyError"
            /\ tasks' = <<>>]_vars
    /\ [](\A i \in 1..Len(tasks) :
            /\ ~IsNone(tasks[i].val.agent)
            /\ OwnerKeys(<<tasks[i]>>) \subseteq KeySet(agents))

C5_Witness ==
    /\ ret.op = "setup_tasks" /\ ret.raised /\ ret.exc = "KeyError"
    /\ agents = <<>> /\ tasks = <<>>

\* C6 as stated: in every reachable state the tasks are paired one to one with
\* the agents, so the owners of the registered tasks are exactly the agent keys.
C6_PairingAlways == OwnerKeys(tasks) = KeySet(agents)

\* C6 amended: the owners of the registered tasks are always agent keys of the
\* registry, and they are all five of them whenever the crew exists.
C6_PairingWhenComposed ==
    /\ OwnerKeys(tasks) \subseteq KeySet(agents)
    /\ Cardinality(OwnerKeys(tasks)) = Len(tasks)
    /\ ~IsNone(crew) =>
        /\ OwnerKeys(tasks) = KeySet(agents)
        /\ Len(tasks) = 5 /\ Len(agents) = 5

C6_Witness ==
    /\ ~IsNone(crew)
    /\ OwnerKeys(tasks) = KeySet(agents) /\ Len(tasks) = 5

\* C7: a run_analysis call that returns leaves the framework composed (a crew,
\* 5 agents, 5 tasks); called without a crew it composes before it executes;
\* and a framework that has a crew never loses it.
C7_Lifecycle ==
    /\ [](Ok("run_analysis") => Composed /\ Reports(5, 5, TRUE))
    /\ [][(IsNone(crew) /\ ret'.op = "run_analysis" /\ kick'.called) => Composed']_vars
    /\ [][Composed => Composed']_vars

C7_Witness ==
    /\ Ok("run_analysis") /\ IsNone(ret.val)
    /\ kick.called /\ kick.failedStep # 0
    /\ Composed

\* C8: an error of the automatic composition leaves run_analysis as an exception,
\* is not turned into None and kickoff is not called; run_analysis raises in no
\* other case; a failed construction raises to the caller too.
C8_ComposeErrorsPropagate ==
    /\ [][(ret'.op = "run_analysis" /\ IsNone(crew) /\ IsNone(crew')) =>
            /\ ret'.raised
            /\ ret'.exc \in {"AgentError", "TaskError", "CrewError"}
            /\ ~kick'.called]_vars
    /\ []((ret.op = "run_analysis" /\ ret.raised) => (IsNone(crew) /\ ~kick.called))
    /\ [](ret.op = "__init__" => (ret.raised <=> ~Constructed))

C8_Witness ==
    /\ ret.op = "run_analysis" /\ ret.raised /\ ret.exc = "TaskError"
    /\ IsNone(crew) /\ Len(agents) = 5

\* C9: validate raises ValueError (the missing-credential error) exactly when
\* OPENAI_API_KEY is absent or empty, returns True otherwise, and no setting
\* ever changes.
C9_Validate ==
    /\ [](ret.op = "validate" =>
            IF settings.OPENAI_API_KEY \in {PyNone, PyStr("")}
            THEN ret.raised /\ ret.exc = "ValueError"
            ELSE ~ret.raised /\ ret.val = PyBool(TRUE))
    /\ [](settings.OPENAI_API_KEY = env)
    /\ [][settings' = settings]_vars

C9_Witness ==
    /\ ret.op = "validate" /\ ret.raised
    /\ settings.OPENAI_API_KEY = PyStr("")

\* C10: after a setup_agents call that returned, the registry holds exactly the
\* five fixed keys, delegation is allowed for ecosystem_coordinator alone, and a
\* further call leaves keys and flags as they were.
DelegationFlags(ag) == [i \in 1..Len(ag) |-> ag[i].val.allow_delegation]

C10_FiveAgents ==
    /\ [](Ok("setup_agents") =>
            /\ Keys(agents) = <<"network_optimizer", "maintenance_engineer",
                                "deployment_orchestrator", "knowledge_curator",
                                "ecosystem_coordinator">>
            /\ DelegationFlags(agents) = <<FALSE, FALSE, FALSE, FALSE, TRUE>>)
    /\ [][(Ok("setup_agents") /\ ret'.op = "setup_agents" /\ ~ret'.raised) =>
            /\ Keys(agents') = Keys(agents)
            /\ DelegationFlags(agents') = DelegationFlags(agents)]_vars

C10_Witness ==
    /\ Ok("setup_agents")
    /\ Len(agents) = 5
    /\ Get(agents, "ecosystem_coordinator").allow_delegation

\* The registry key of each task of a list, found by the task's description
TaskNames(tks) ==
    [i \in 1..Len(tks) |->
        TaskSpecs[CHOOSE j \in 1..Len(TaskSpecs) :
                      TaskSpecs[j].description = tks[i].description].key]

\* C11: whenever the crew exists, its tasks are network_analysis,
\* maintenance_prediction, service_deployment, knowledge_curation and
\* ecosystem_coordination in that order, its process is sequential, and the
\* task registry lists the same five keys in the same order; no call changes it.
C11_FixedOrder ==
    ~IsNone(crew) =>
        /\ TaskNames(crew.tasks) = <<"network_analysis", "maintenance_prediction",
                                     "service_deployment", "knowledge_curation",
                                     "ecosystem_coordination">>
        /\ crew.process = "sequential"
        /\ Keys(tasks) = TaskNames(crew.tasks)
        /\ TaskNames(Values(tasks)) = Keys(tasks)

\* a crew whose tasks are older objects than the registry's: setup_tasks ran again
C11_Witness ==
    /\ ~IsNone(crew) /\ Ok("setup_tasks")
    /\ crew.tasks[1].id # tasks[1].val.id
    /\ TaskNames(crew.tasks)[2] = "maintenance_prediction"
    /\ Len(crew.tasks) = 5

\* C12: in every state of a constructed framework get_system_status returns
\* without raising; it reports framework_status "Active", agents_count and
\* tasks_count equal to the sizes of the registries and crew_initialized equal to
\* whether the crew exists; and it leaves both registries and the crew as they were.
C12_StatusIsPureAndExact ==
    /\ [](Constructed =>
            /\ ENABLED get_system_status
            /\ Reports(Len(agents), Len(tasks), ~IsNone(crew)))
    /\ [][ret'.op = "get_system_status" =>
            /\ ~ret'.raised
            /\ Field(ret'.val, "framework_status") = "Active"
            /\ Field(ret'.val, "agents_count") = Len(agents)
            /\ Field(ret'.val, "tasks_count") = Len(tasks)
            /\ Field(ret'.val, "crew_initialized") = ~IsNone(crew)
            /\ agents' = agents /\ tasks' = tasks /\ crew' = crew]_vars

\* a status taken after a setup_tasks call that failed part way
C12_Witness ==
    /\ Ok("get_system_status")
    /\ Len(agents) = 5 /\ Len(tasks) = 2 /\ IsNone(crew)
    /\ Field(ret.val, "agents_count") = 5
    /\ Field(ret.val, "tasks_count") = 2
    /\ Field(ret.val, "crew_initialized") = FALSE

\* The agent key the source passes to the Task(...) registered under key k
OwnerKey(k) ==
    TaskSpecs[CHOOSE j \in 1..Len(TaskSpecs) : TaskSpecs[j].key = k].agent

\* C13 as stated: every registered task's agent is the object the agent registry
\* holds under the task's agent key, and the agents of an existing crew are the
\* objects of the agent registry.  A setup_agents call made after the tasks or
\* the crew were built puts new objects in the registry and refutes it.
C13_AgentsAreRegistryAgents ==
    /\ \A i \in 1..Len(tasks) :
            /\ HasKey(agents, OwnerKey(tasks[i].key))
            /\ tasks[i].val.agent = Get(agents, OwnerKey(tasks[i].key))
    /\ ~IsNone(crew) => crew.agents = Values(agents)

\* setup_agents returned on a composed framework: the registry's agents are new
\* objects, the tasks and the crew still hold the ones they were built with
C13_Witness ==
    /\ Ok("setup_agents")
    /\ ~IsNone(crew) /\ Len(tasks) = 5 /\ Len(agents) = 5
    /\ \A i \in 1..5 :
            /\ tasks[i].val.agent.id # agents[i].val.id
            /\ tasks[i].val.agent.role = agents[i].val.role
            /\ crew.agents[i].id # agents[i].val.id

====
